---- MODULE Spec2Model ----
(***************************************************************************)
(* A model of the resilient execution pipeline (BaseModel.execute) and of  *)
(* the reasoning path engine (QwQReasoning) of multi-ai-model-agents.      *)
(*                                                                         *)
(* Text is a sequence of one-character strings, so that includes, replace, *)
(* trim and the regular expressions of the source act on characters as     *)
(* they do in the source.  Scores and confidences are integers in          *)
(* hundredths (0.3 is 30); a weighted score is in thousandths.             *)
(***************************************************************************)
EXTENDS Integers, Sequences, FiniteSets, TLC

Min(a, b) == IF a < b THEN a ELSE b
Max(a, b) == IF a > b THEN a ELSE b

(***************************************************************************)
(* String primitives (ECMAScript String.prototype).                        *)
(***************************************************************************)
WhiteSpace == {" ", "\t", "\n"}
Digits == {"0","1","2","3","4","5","6","7","8","9"}

lowerChar(c) ==
  CASE c = "A" -> "a" [] c = "B" -> "b" [] c = "C" -> "c" [] c = "D" -> "d"
    [] c = "E" -> "e" [] c = "F" -> "f" [] c = "G" -> "g" [] c = "H" -> "h"
    [] c = "I" -> "i" [] c = "J" -> "j" [] c = "K" -> "k" [] c = "L" -> "l"
    [] c = "M" -> "m" [] c = "N" -> "n" [] c = "O" -> "o" [] c = "P" -> "p"
    [] c = "Q" -> "q" [] c = "R" -> "r" [] c = "S" -> "s" [] c = "T" -> "t"
    [] c = "U" -> "u" [] c = "V" -> "v" [] c = "W" -> "w" [] c = "X" -> "x"
    [] c = "Y" -> "y" [] c = "Z" -> "z"
    [] OTHER -> c

\* a sequence given as a function, as a tuple
asSeq(f) == f \o <<>>

toLowerCase(s) == asSeq([i \in 1..Len(s) |-> lowerChar(s[i])])

\* s has sub at index i (1-based)
startsAt(s, sub, i) ==
  /\ i >= 1
  /\ i + Len(sub) - 1 <= Len(s)
  /\ \A k \in 1..Len(sub) : s[i + k - 1] = sub[k]

includes(s, sub) == \E i \in 1..(Len(s) - Len(sub) + 1) : startsAt(s, sub, i)

\* index of the first occurrence of sub in s, 0 when there is none
indexOf(s, sub) ==
  IF includes(s, sub)
    THEN CHOOSE i \in 1..(Len(s) - Len(sub) + 1) :
           /\ startsAt(s, sub, i)
           /\ \A j \in 1..(i - 1) : ~startsAt(s, sub, j)
    ELSE 0

\* s.replace(sub, ''): the first occurrence only
replaceFirst(s, sub) ==
  LET i == indexOf(s, sub)
  IN IF i = 0 THEN s
     ELSE SubSeq(s, 1, i - 1) \o SubSeq(s, i + Len(sub), Len(s))

trim(s) ==
  LET keep == {i \in 1..Len(s) : s[i] \notin WhiteSpace}
  IN IF keep = {} THEN <<>>
     ELSE SubSeq(s, CHOOSE i \in keep : \A j \in keep : i <= j,
                    CHOOSE i \in keep : \A j \in keep : i >= j)

\* every character of s[a..b] is white space / is no line terminator
allSpace(s, a, b) == \A k \in a..b : s[k] \in WhiteSpace
noNewline(s, a, b) == \A k \in a..b : s[k] # "\n"

RECURSIVE sumLengths(_)
sumLengths(steps) ==
  IF steps = <<>> THEN 0 ELSE Len(Head(steps)) + sumLengths(Tail(steps))

RECURSIVE flatten(_)
flatten(seqs) ==
  IF seqs = <<>> THEN <<>> ELSE Head(seqs) \o flatten(Tail(seqs))

(***************************************************************************)
(* QwQReasoning: contradiction, fallacy and causal-chain analysis.         *)
(***************************************************************************)
negations ==
  << <<"n","o","t">>, <<"n","e","v","e","r">>, <<"n","o">>, <<"c","a","n","n","o","t">>, <<"d","o","n","'","t">>, <<"d","o","e","s","n","'","t">>, <<"w","o","n","'","t">> >>

stepsContradict(step1, step2) ==
  \E n \in 1..Len(negations) :
    \/ /\ includes(step1, negations[n])
       /\ includes(step2, trim(replaceFirst(step1, negations[n])))
    \/ /\ includes(step2, negations[n])
       /\ includes(step1, trim(replaceFirst(step2, negations[n])))

detectContradictions(steps) ==
  \E i \in 1..Len(steps) : \E j \in (i + 1)..Len(steps) :
    stepsContradict(steps[i], steps[j])

\* the five patterns, each tested with the i flag: on the lower-cased step
matchAdHominem(t) ==
  includes(t, <<"a","t","t","a","c","k","i","n","g">>) \/ includes(t, <<"p","e","r","s","o","n","a","l">>) \/ includes(t, <<"c","h","a","r","a","c","t","e","r">>)

matchStrawMan(t) == includes(t, <<"m","i","s","r","e","p","r","e","s","e","n","t">>) \/ includes(t, <<"d","i","s","t","o","r","t">>)

\* /only\s+two\s+options|either.*or\s+nothing/
matchFalseDilemma(t) ==
  \/ \E i \in 1..Len(t) :
       /\ startsAt(t, <<"o","n","l","y">>, i)
       /\ \E j \in (i + 5)..Len(t) :
            /\ allSpace(t, i + 4, j - 1) /\ startsAt(t, <<"t","w","o">>, j)
            /\ \E k \in (j + 4)..Len(t) :
                 allSpace(t, j + 3, k - 1) /\ startsAt(t, <<"o","p","t","i","o","n","s">>, k)
  \/ \E i \in 1..Len(t) :
       /\ startsAt(t, <<"e","i","t","h","e","r">>, i)
       /\ \E j \in (i + 6)..Len(t) :
            /\ noNewline(t, i + 6, j - 1) /\ startsAt(t, <<"o","r">>, j)
            /\ \E k \in (j + 3)..Len(t) :
                 allSpace(t, j + 2, k - 1) /\ startsAt(t, <<"n","o","t","h","i","n","g">>, k)

\* /because.*therefore.*because/
matchCircular(t) ==
  \E i \in 1..Len(t) :
    /\ startsAt(t, <<"b","e","c","a","u","s","e">>, i)
    /\ \E j \in (i + 7)..Len(t) :
         /\ noNewline(t, i + 7, j - 1) /\ startsAt(t, <<"t","h","e","r","e","f","o","r","e">>, j)
         /\ \E k \in (j + 9)..Len(t) :
              noNewline(t, j + 9, k - 1) /\ startsAt(t, <<"b","e","c","a","u","s","e">>, k)

matchHastyGeneralization(t) ==
  \/ includes(t, <<"a","l","l">>) \/ includes(t, <<"e","v","e","r","y">>)
  \/ includes(t, <<"n","e","v","e","r">>) \/ includes(t, <<"a","l","w","a","y","s">>)

\* the fallacies pushed for one step, in the order of fallacyPatterns
stepFallacies(step) ==
  LET t == toLowerCase(step)
  IN (IF matchAdHominem(t) THEN <<"ad_hominem">> ELSE <<>>)
     \o (IF matchStrawMan(t) THEN <<"straw_man">> ELSE <<>>)
     \o (IF matchFalseDilemma(t) THEN <<"false_dilemma">> ELSE <<>>)
     \o (IF matchCircular(t) THEN <<"circular">> ELSE <<>>)
     \o (IF matchHastyGeneralization(t) THEN <<"hasty_generalization">> ELSE <<>>)

detectFallacies(steps) ==
  flatten(asSeq([i \in 1..Len(steps) |-> stepFallacies(steps[i])]))

causalWords ==
  << <<"b","e","c","a","u","s","e">>, <<"t","h","e","r","e","f","o","r","e">>, <<"t","h","u","s">>, <<"h","e","n","c","e">>, <<"s","o">>, <<"c","o","n","s","e","q","u","e","n","t","l","y">> >>

validateCausalChain(steps) ==
  \E i \in 1..Len(steps) : \E w \in 1..Len(causalWords) :
    includes(toLowerCase(steps[i]), causalWords[w])

(***************************************************************************)
(* QwQReasoning: the three scorers and the selection.                      *)
(***************************************************************************)
scoreLogicalConsistency(path) ==
  LET s1 == IF detectContradictions(path.steps) THEN 100 - 30 ELSE 100
      s2 == s1 - Len(detectFallacies(path.steps)) * 10
      s3 == IF ~validateCausalChain(path.steps) THEN s2 - 20 ELSE s2
  IN Max(0, s3)

someStepIncludes(steps, a, b) ==
  \E i \in 1..Len(steps) : includes(steps[i], a) \/ includes(steps[i], b)

scoreCompleteness(path) ==
  LET s1 == IF Len(path.steps) >= 3 THEN 30 ELSE 0
      s2 == IF Len(path.steps) >= 5 THEN s1 + 20 ELSE s1
      s3 == IF Len(path.assumptions) > 0 THEN s2 + 20 ELSE s2
      s4 == IF someStepIncludes(path.steps, <<"t","h","e","r","e","f","o","r","e">>, <<"t","h","u","s">>)
              THEN s3 + 15 ELSE s3
      s5 == IF someStepIncludes(path.steps, <<"b","e","c","a","u","s","e">>, <<"s","i","n","c","e">>)
              THEN s4 + 15 ELSE s4
  IN Min(100, s5)

\* avgLength is NaN for no steps, and NaN > 200 is false
scoreSimplicity(path) ==
  LET n == Len(path.steps)
      s1 == IF n > 10 THEN 100 - 20 ELSE 100
      s2 == IF n > 15 THEN s1 - 30 ELSE s1
      s3 == IF n > 0 /\ sumLengths(path.steps) > 200 * n THEN s2 - 20 ELSE s2
      hasStructure ==
        \E i \in 1..n :
          \/ includes(path.steps[i], <<"f","i","r","s","t">>)
          \/ includes(path.steps[i], <<"s","e","c","o","n","d">>)
          \/ includes(path.steps[i], <<"f","i","n","a","l","l","y">>)
      s4 == IF hasStructure THEN s3 + 10 ELSE s3
  IN Max(0, Min(100, s4))

(***************************************************************************)
(* QwQReasoning: parsing a raw inference result into a ReasoningPath.      *)
(***************************************************************************)
\* the index after the run of characters of S that starts at i
RECURSIVE runEnd(_, _, _)
runEnd(s, i, S) ==
  IF i <= Len(s) /\ s[i] \in S THEN runEnd(s, i + 1, S) ELSE i

\* length of the match of \d+\. at i (0: none); i may lie inside a run of digits
numberPrefix(s, i) ==
  LET e == runEnd(s, i, Digits)
  IN IF i <= Len(s) /\ e > i /\ e <= Len(s) /\ s[e] = "." THEN e + 1 - i ELSE 0

\* length of the match of [-U+2022] at i (0: none); the bullet character
\* U+2022 is the one-element string "U+2022"
bulletPrefix(s, i) ==
  IF i <= Len(s) /\ s[i] \in {"-", "U+2022"} THEN 1 ELSE 0

\* the list marker of a kind of list at i: "numbered" or "bullet"
markerPrefix(kind, s, i) ==
  IF kind = "numbered" THEN numberPrefix(s, i) ELSE bulletPrefix(s, i)

\* One match of  <marker>\s+(.+?)(?=<marker>|$)  (flag s) starting at i, as
\* <<first index of the captured text, index after the match>>; <<0, 0>>: none.
\* \s+ is greedy and gives one character back when it ran to the end.
itemMatch(kind, s, i) ==
  LET pl == markerPrefix(kind, s, i)
      ws == i + pl
      cs == runEnd(s, ws, WhiteSpace)
      from == IF cs <= Len(s) THEN cs ELSE Len(s)
      stops == {p \in (from + 1)..(Len(s) + 1) :
                  p = Len(s) + 1 \/ markerPrefix(kind, s, p) > 0}
  IN IF pl = 0 \/ cs = ws \/ (cs > Len(s) /\ cs - ws < 2)
       THEN <<0, 0>>
       ELSE <<from, CHOOSE p \in stops : \A q \in stops : p <= q>>

\* text.match(/<marker>\s+(.+?)(?=<marker>|$)/gs) mapped by
\* s => s.replace(/^<marker>\s+/, '').trim(), scanning from i
RECURSIVE matchItems(_, _, _)
matchItems(kind, s, i) ==
  IF i > Len(s) THEN <<>>
  ELSE LET m == itemMatch(kind, s, i)
       IN IF m = <<0, 0>> THEN matchItems(kind, s, i + 1)
          ELSE <<trim(SubSeq(s, i + markerPrefix(kind, s, i), m[2] - 1))>>
                 \o matchItems(kind, s, m[2])

\* text.split(/[.!?]+/), scanning from i with the piece cur begun
RECURSIVE splitSentences(_, _, _)
splitSentences(s, i, cur) ==
  IF i > Len(s) THEN <<cur>>
  ELSE IF s[i] \in {".", "!", "?"}
    THEN <<cur>> \o splitSentences(s, runEnd(s, i, {".", "!", "?"}), <<>>)
    ELSE splitSentences(s, i + 1, Append(cur, s[i]))

extractSteps(text) ==
  LET numberedSteps == matchItems("numbered", text, 1)
      bulletSteps == matchItems("bullet", text, 1)
  IN IF numberedSteps # <<>> THEN numberedSteps
     ELSE IF bulletSteps # <<>> THEN bulletSteps
     ELSE SelectSeq(splitSentences(text, 1, <<>>), LAMBDA x : Len(trim(x)) > 10)

\* length of the match of assum(?:e|ing|ption) at i of the lower-cased text
assumPrefix(t, i) ==
  IF startsAt(t, <<"a","s","s","u","m","e">>, i) THEN 6
  ELSE IF startsAt(t, <<"a","s","s","u","m","i","n","g">>, i) THEN 8
  ELSE IF startsAt(t, <<"a","s","s","u","m","p","t","i","o","n">>, i) THEN 10
  ELSE 0

\* length of the match of given\s+that at i of the lower-cased text
givenThatPrefix(t, i) ==
  LET e == runEnd(t, i + 5, WhiteSpace)
  IN IF startsAt(t, <<"g","i","v","e","n">>, i) /\ e > i + 5 /\ startsAt(t, <<"t","h","a","t">>, e)
       THEN e + 4 - i ELSE 0

\* length of the match of limited\s+to at i of the lower-cased text
limitedToPrefix(t, i) ==
  LET e == runEnd(t, i + 7, WhiteSpace)
  IN IF startsAt(t, <<"l","i","m","i","t","e","d">>, i) /\ e > i + 7 /\ startsAt(t, <<"t","o">>, e)
       THEN e + 2 - i ELSE 0

\* the cue phrase of a kind of constraint at i: "must", "should", "cannot",
\* "limited" or "within"
constraintPrefix(kind, t, i) ==
  IF kind = "must" THEN (IF startsAt(t, <<"m","u","s","t">>, i) THEN 4 ELSE 0)
  ELSE IF kind = "should" THEN (IF startsAt(t, <<"s","h","o","u","l","d">>, i) THEN 6 ELSE 0)
  ELSE IF kind = "cannot" THEN (IF startsAt(t, <<"c","a","n","n","o","t">>, i) THEN 6 ELSE 0)
  ELSE IF kind = "limited" THEN limitedToPrefix(t, i)
  ELSE IF kind = "within" THEN (IF startsAt(t, <<"w","i","t","h","i","n">>, i) THEN 6 ELSE 0)
  ELSE 0

\* the cue phrase of a kind at i: of an assumption ("assum", "given") or of
\* a constraint
cuePrefix(kind, t, i) ==
  IF kind = "assum" THEN assumPrefix(t, i)
  ELSE IF kind = "given" THEN givenThatPrefix(t, i)
  ELSE constraintPrefix(kind, t, i)

Terminators == {".", ",", ";"}

\* One match of  <cue>\s+(.+?)(?:\.|,|;|$)  (no flag s) at i, as
\* <<first index of the capture, index after the capture, index after the match>>
cueMatch(kind, t, i) ==
  LET pl == cuePrefix(kind, t, i)
      ws == i + pl
      cs == runEnd(t, ws, WhiteSpace)
      from == IF cs <= Len(t) THEN cs ELSE Len(t)
      ends == {p \in (from + 1)..(Len(t) + 1) :
                 p = Len(t) + 1 \/ t[p] \in Terminators}
      e == CHOOSE p \in ends : \A q \in ends : p <= q
  IN IF pl = 0 \/ cs = ws \/ (cs > Len(t) /\ cs - ws < 2)
          \/ ~noNewline(t, from, e - 1)
       THEN <<0, 0, 0>>
       ELSE <<from, e, IF e <= Len(t) THEN e + 1 ELSE e>>

\* One match of  if\s+(.+?)\s+then  at i
ifThenMatch(t, i) ==
  LET ws == i + 2
      cs == runEnd(t, ws, WhiteSpace)
      ends == {q \in cs..Len(t) :
                 /\ noNewline(t, cs, q)
                 /\ runEnd(t, q + 1, WhiteSpace) > q + 1
                 /\ startsAt(t, <<"t","h","e","n">>, runEnd(t, q + 1, WhiteSpace))}
      q0 == CHOOSE q \in ends : \A r \in ends : q <= r
  IN IF ~startsAt(t, <<"i","f">>, i) \/ cs = ws \/ ends = {}
       THEN <<0, 0, 0>>
       ELSE <<cs, q0 + 1, runEnd(t, q0 + 1, WhiteSpace) + 4>>

\* text.matchAll(pattern) with the i flag: the trimmed captures, scanning
\* from i; t is text lower-cased, on which the pattern is matched
\* where the next match of the pattern of a kind begins, at i or after; there
\* is one
nextCue(kind, t, i) ==
  CHOOSE p \in i..Len(t) :
    /\ cueMatch(kind, t, p) # <<0, 0, 0>>
    /\ \A q \in i..(p - 1) : cueMatch(kind, t, q) = <<0, 0, 0>>

RECURSIVE cueCaptures(_, _, _, _)

\* the capture of the match m, and those of the matches after it
captureAt(kind, text, t, m) ==
  <<trim(SubSeq(text, m[1], m[2] - 1))>> \o cueCaptures(kind, text, t, m[3])

cueCaptures(kind, text, t, i) ==
  IF \A p \in i..Len(text) : cueMatch(kind, t, p) = <<0, 0, 0>> THEN <<>>
  ELSE captureAt(kind, text, t, cueMatch(kind, t, nextCue(kind, t, i)))

RECURSIVE ifThenCaptures(_, _, _)
ifThenCaptures(text, t, i) ==
  IF i > Len(text) THEN <<>>
  ELSE LET m == ifThenMatch(t, i)
       IN IF m = <<0, 0, 0>> THEN ifThenCaptures(text, t, i + 1)
          ELSE <<trim(SubSeq(text, m[1], m[2] - 1))>>
                 \o ifThenCaptures(text, t, m[3])

extractAssumptions(text) ==
  LET t == toLowerCase(text)
  IN cueCaptures("assum", text, t, 1)
       \o cueCaptures("given", text, t, 1)
       \o ifThenCaptures(text, t, 1)

calculateConfidenceFromText(text) ==
  LET has(a, b) == includes(text, a) \/ includes(text, b)
      c1 == 50 + (IF has(<<"c","e","r","t","a","i","n","l","y">>, <<"d","e","f","i","n","i","t","e","l","y">>) THEN 20 ELSE 0)
      c2 == c1 + (IF has(<<"c","l","e","a","r">>, <<"o","b","v","i","o","u","s">>) THEN 10 ELSE 0)
      c3 == c2 + (IF has(<<"p","r","o","v","e","n">>, <<"v","e","r","i","f","i","e","d">>) THEN 15 ELSE 0)
      c4 == c3 - (IF has(<<"m","a","y","b","e">>, <<"p","e","r","h","a","p","s">>) THEN 10 ELSE 0)
      c5 == c4 - (IF has(<<"u","n","c","l","e","a","r">>, <<"u","n","c","e","r","t","a","i","n">>) THEN 15 ELSE 0)
      c6 == c5 - (IF has(<<"a","s","s","u","m","p","t","i","o","n">>, <<"g","u","e","s","s">>) THEN 10 ELSE 0)
  IN Max(10, Min(100, c6))

\* A raw result is [text, confidence]; confidence 0 stands for a falsy
\* response.confidence (absent or 0), text <<>> for none.
parseReasoningPath(response) ==
  [ steps |-> extractSteps(response.text),
    confidence |-> IF response.confidence # 0 THEN response.confidence
                   ELSE calculateConfidenceFromText(response.text),
    assumptions |-> extractAssumptions(response.text) ]

(***************************************************************************)
(* QwQReasoning.evaluateReasoningPaths: scores.sort((a, b) => b.score -    *)
(* a.score)[0].path.  Array.prototype.sort is stable; an entry is          *)
(* [idx, score], idx the place of the path in paths.                       *)
(***************************************************************************)
\* an insertion that puts e before its equals: the sort is no longer stable
RECURSIVE insertBeforeEquals(_, _)
insertBeforeEquals(e, sorted) ==
  IF sorted = <<>> THEN <<e>>
  ELSE IF Head(sorted).score > e.score
    THEN <<Head(sorted)>> \o insertBeforeEquals(e, Tail(sorted))
    ELSE <<e>> \o sorted

\* e inserted into a list sorted by descending score, after its equals
RECURSIVE insertByScore(_, _)
insertByScore(e, sorted) ==
  IF sorted = <<>> THEN <<e>>
  ELSE IF Head(sorted).score >= e.score
    THEN <<Head(sorted)>> \o insertByScore(e, Tail(sorted))
    ELSE <<e>> \o sorted

RECURSIVE sortByScore(_, _)
sortByScore(entries, n) ==
  IF n = 0 THEN <<>>
  ELSE insertByScore(entries[n], sortByScore(entries, n - 1))

\* the entries of scores, one per path, with the component scores
scorePaths(paths) ==
  asSeq([i \in 1..Len(paths) |->
    LET logicalScore == scoreLogicalConsistency(paths[i])
        completenessScore == scoreCompleteness(paths[i])
        simplicityScore == scoreSimplicity(paths[i])
        confidenceScore == paths[i].confidence
    IN [idx |-> i,
        logical |-> logicalScore,
        completeness |-> completenessScore,
        simplicity |-> simplicityScore,
        score |-> logicalScore * 4 + completenessScore * 3
                    + simplicityScore * 2 + confidenceScore * 1]])

\* [best: the place in paths of the path returned, scores: the entries]
evaluateReasoningPaths(paths) ==
  LET scores == scorePaths(paths)
  IN [best |-> sortByScore(scores, Len(scores))[1].idx, scores |-> scores]

(***************************************************************************)
(* The inference backend's raw results (AI.run), as fixtures.              *)
(***************************************************************************)
RawOutputs ==
  << [text |-> <<"o","k",".">>, confidence |-> 0],
     [text |-> <<"I","t"," ","i","s"," ","s","m","a","l","l",","," ","t","h","u","s"," ","i","t"," ","i","s"," ","f","a","s","t","."," ","I","t"," ","m","o","s","t","l","y"," ","f","i","t","s"," ","i","n"," ","m","e","m","o","r","y",".">>,
      confidence |-> 20],
     [text |-> <<"I","t"," ","i","s"," ","s","m","a","l","l",","," ","t","h","u","s"," ","i","t"," ","i","s"," ","f","a","s","t","."," ","I","t"," ","a","l","w","a","y","s"," ","f","i","t","s"," ","i","n"," ","m","e","m","o","r","y",".">>,
      confidence |-> 60],
     [text |-> <<"1","."," ","W","e"," ","a","s","s","u","m","e"," ","X","."," ","2","."," ","B","e","c","a","u","s","e"," ","X",","," ","t","h","e","r","e","f","o","r","e"," ","Y","."," ","3","."," ","T","h","u","s"," ","Z"," ","f","o","l","l","o","w","s",".">>,
      confidence |-> 80],
     [text |-> <<"T","h","e"," ","c","a","c","h","e"," ","i","s"," ","c","l","e","a","r","l","y"," ","f","a","s","t"," ","b","e","c","a","u","s","e"," ","i","t"," ","i","s"," ","s","m","a","l","l","."," ","I","t"," ","n","e","v","e","r"," ","m","i","s","s","e","s",".">>,
      confidence |-> 0],
     [text |-> <<"-"," ","f","i","r","s","t"," ","m","a","p"," ","t","h","e"," ","i","n","p","u","t","s"," ","-"," ","f","i","n","a","l","l","y"," ","m","a","p"," ","t","h","e"," ","o","u","t","p","u","t","s">>,
      confidence |-> 150] >>

Strategies == <<"analytical", "creative", "systematic", "first-principles">>
NumStrategies == Len(Strategies)
StrategyIds == 1..NumStrategies

\* a fan-in that collects the results in the order they arrive
storeResponseOnArrival(responses, k, raw) ==
  LET e == CHOOSE i \in 1..Len(responses) :
             responses[i] = 0 /\ \A j \in 1..(i - 1) : responses[j] # 0
  IN [responses EXCEPT ![e] = raw]

\* Promise.all puts the result of the k-th promise at place k
storeResponse(responses, k, raw) == [responses EXCEPT ![k] = raw]

\* responses.map(r => this.parseReasoningPath(r))
generatedPaths(responses) ==
  asSeq([k \in 1..Len(responses) |->
           parseReasoningPath(RawOutputs[responses[k]])])

(***************************************************************************)
(* BaseModel: confidence of a response.  Confidences of the pipeline are   *)
(* in thousandths (0.3 is 300), the quality score is a count of checks.    *)
(***************************************************************************)
\* text.split(' ').length
splitLength(text) == Cardinality({i \in 1..Len(text) : text[i] = " "}) + 1

\* /[.!?]$/.test(text.trim())
endsSentence(text) ==
  LET t == trim(text)
  IN t # <<>> /\ t[Len(t)] \in {".", "!", "?"}

\* the number of the four checks passed; the caller divides by checks.length
validateResponseQuality(response) ==
  (IF Len(response.text) > 10 THEN 1 ELSE 0)
    + (IF ~includes(response.text, <<"e","r","r","o","r">>) THEN 1 ELSE 0)
    + (IF splitLength(response.text) > 3 THEN 1 ELSE 0)
    + (IF endsSentence(response.text) THEN 1 ELSE 0)

\* the same without the partial credit for a response over the token budget
calculateConfidenceAllOrNothing(response, rate) ==
  Min((IF response.fast THEN 200 ELSE 0)
        + (IF response.small THEN 200 ELSE 0)
        + (rate * 3) \div 10
        + (validateResponseQuality(response) * 1000 * 3) \div (4 * 10),
      1000)

\* response.fast: processingTime < config.optimalLatency (no model of the
\* repository sets optimalLatency, and the comparison with undefined is false);
\* response.small: tokenCount < config.maxTokens * 0.8;
\* rate: metrics.getRecentSuccessRate(), in thousandths
calculateConfidence(response, rate) ==
  Min((IF response.fast THEN 200 ELSE 0)
        + (IF response.small THEN 200 ELSE 100)
        + (rate * 3) \div 10
        + (validateResponseQuality(response) * 1000 * 3) \div (4 * 10),
      1000)

ModelId == "qwq-32b-preview"
Null == "null"

\* What processInternal can resolve with.  hasText FALSE: text is undefined
\* (ModelResponse.text is optional), and response.text.length throws.
BackendResponses ==
  << [hasText |-> TRUE, text |-> <<"T","h","e"," ","a","n","s","w","e","r"," ","i","s"," ","4","2",".">>, fast |-> FALSE, small |-> TRUE],
     [hasText |-> FALSE, text |-> <<>>, fast |-> FALSE, small |-> TRUE] >>
ResponseIds == 1..Len(BackendResponses)

\* enhanceResponse: [ok, response]; ok FALSE: calculateConfidence threw.
\* A response is [text: the place in BackendResponses, confidence, modelId,
\* degraded, error].
enhanceResponse(r, rate) ==
  IF ~BackendResponses[r].hasText
    THEN [ok |-> FALSE, response |-> [text |-> 0, confidence |-> 0,
                                     modelId |-> Null, degraded |-> FALSE,
                                     error |-> "TypeError"]]
    ELSE [ok |-> TRUE,
          response |-> [text |-> r,
                        confidence |-> calculateConfidence(BackendResponses[r], rate),
                        modelId |-> ModelId,
                        degraded |-> FALSE,
                        error |-> "none"]]

(***************************************************************************)
(* BaseModel: the cache.  generateCacheKey returns the promise of the      *)
(* digest, not the digest: a key is an object with an identity of its own, *)
(* and Map.has and Map.set compare keys by identity.                       *)
(***************************************************************************)
\* seq: the identity of the promise this call creates
generateCacheKey(input, seq) == [digest |-> input.id, promise |-> seq]

\* this.cache.has(cacheKey): the cache is a set of [key, response] entries
cacheHas(cache, key) == \E e \in cache : e.key = key

cacheGet(cache, key) == (CHOOSE e \in cache : e.key = key).response

\* this.cache.set(cacheKey, {response, timestamp})
updateCache(cache, key, response) ==
  {e \in cache : e.key # key} \cup {[key |-> key, response |-> response]}

\* the cache policy: a streaming request is not cached
shouldUseCache(input) == ~input.stream

(***************************************************************************)
(* The collaborators of executeWithResilience and the error handler.       *)
(***************************************************************************)
MaxAttempts == 3
FailureThreshold == 1
Cooldown == 1

newCircuitBreaker == [state |-> "Closed", failures |-> 0, openedAt |-> 0]

\* the breaker when a call arrives: Open becomes HalfOpen once the cooldown ran
breakerOnCall(b, now) ==
  IF b.state = "Open" /\ now - b.openedAt >= Cooldown
    THEN [b EXCEPT !.state = "HalfOpen"]
    ELSE b

breakerOnSuccess(b) == [b EXCEPT !.state = "Closed", !.failures = 0]

breakerOnFailure(b, now) ==
  IF b.state = "HalfOpen" \/ b.failures + 1 >= FailureThreshold
    THEN [state |-> "Open", failures |-> b.failures + 1, openedAt |-> now]
    ELSE [b EXCEPT !.failures = b.failures + 1]

\* the retry policy: another attempt after a failure that is no cancellation
retryAgain(attempt, kind) == kind # "cancel" /\ attempt < MaxAttempts

\* the degraded Response of handleError
degradedResponse(kind) ==
  [text |-> 0, confidence |-> 0, modelId |-> ModelId, degraded |-> TRUE,
   error |-> kind]

\* handleError: what execute ends with on an error of a kind
handleError(kind) ==
  IF kind = "cancel"
    THEN [kind |-> "raised", error |-> "cancel", response |-> degradedResponse("cancel")]
    ELSE [kind |-> "response", error |-> "none", response |-> degradedResponse(kind)]

\* a catch clause that turns every error into the degraded Response
catchAndDegrade(kind) ==
  [kind |-> "response", error |-> "none", response |-> degradedResponse(kind)]

\* a catch clause that returns an empty Response
catchAndReturnEmpty(kind) ==
  [kind |-> "response", error |-> "none",
   response |-> [text |-> 0, confidence |-> 0, modelId |-> ModelId,
                 degraded |-> FALSE, error |-> "none"]]

\* the catch clause of execute
catchError(kind) == handleError(kind)

(***************************************************************************)
(* QwQReasoning: the problem of a request and its cognitive complexity, in *)
(* hundredths.                                                             *)
(***************************************************************************)
extractConstraints(text) ==
  LET t == toLowerCase(text)
  IN cueCaptures("must", text, t, 1)
       \o cueCaptures("should", text, t, 1)
       \o cueCaptures("cannot", text, t, 1)
       \o cueCaptures("limited", text, t, 1)
       \o cueCaptures("within", text, t, 1)

extractProblem(text) ==
  [statement |-> text, constraints |-> extractConstraints(text)]

\* statement.split(',').length
clauseCount(statement) ==
  Cardinality({i \in 1..Len(statement) : statement[i] = ","}) + 1

\* the same with the constraint bonus given from five constraints on
assessCognitiveFromFive(problem) ==
  Min(100,
      50 + (IF Len(problem.statement) > 200 THEN 10 ELSE 0)
         + (IF Len(problem.constraints) > 4 THEN 15 ELSE 0)
         + (IF includes(problem.statement, <<"m","u","l","t","i">>)
                 \/ includes(problem.statement, <<"c","o","m","p","l","e","x">>) THEN 10 ELSE 0)
         + (IF clauseCount(problem.statement) > 5 THEN 10 ELSE 0))

assessCognitiveComplexity(problem) ==
  Min(100,
      50 + (IF Len(problem.statement) > 200 THEN 10 ELSE 0)
         + (IF Len(problem.constraints) > 3 THEN 15 ELSE 0)
         + (IF includes(problem.statement, <<"m","u","l","t","i">>)
                 \/ includes(problem.statement, <<"c","o","m","p","l","e","x">>) THEN 10 ELSE 0)
         + (IF clauseCount(problem.statement) > 5 THEN 10 ELSE 0))

\* Problem statements: an opening, with or without the keyword and the
\* clauses the assessment looks for, no, three or four constraints, and a
\* filler up to a length on either side of the 200 the assessment tests.
Openings ==
  << <<"P","l","a","n"," ","t","h","e"," ","t","r","i","p">>,
     <<"P","l","a","n"," ","t","h","e"," ","m","u","l","t","i"," ","c","i","t","y"," ","t","r","i","p">>,
     <<"P","l","a","n"," ","t","h","e"," ","t","r","i","p"," ","v","i","a"," ","a",","," ","b",","," ","c",","," ","d",","," ","e",","," ","f">>,
     <<"P","l","a","n"," ","t","h","e"," ","c","o","m","p","l","e","x"," ","t","r","i","p"," ","v","i","a"," ","a",","," ","b",","," ","c",","," ","d",","," ","e",","," ","f">> >>

ConstraintTexts ==
  << <<>>,
     <<"."," ","I","t"," ","m","u","s","t"," ","b","e"," ","c","h","e","a","p","."," ","I","t"," ","s","h","o","u","l","d"," ","b","e"," ","s","h","o","r","t","."," ","I","t"," ","c","a","n","n","o","t"," ","b","e"," ","l","a","t","e",".">>,
     <<"."," ","I","t"," ","m","u","s","t"," ","b","e"," ","c","h","e","a","p","."," ","I","t"," ","s","h","o","u","l","d"," ","b","e"," ","s","h","o","r","t","."," ","I","t"," ","c","a","n","n","o","t"," ","b","e"," ","l","a","t","e","."," ","I","t"," ","s","t","a","y","s"," ","w","i","t","h","i","n"," ","b","u","d","g","e","t",".">> >>

StatementLengths == {0, 199, 200, 201}

\* s filled with the letter z up to the length n, if it is shorter
filledTo(s, n) ==
  IF Len(s) >= n THEN s
  ELSE s \o <<" ">> \o [i \in 1..(n - Len(s) - 1) |-> "z"]

\* every opening with every constraint text at every length
Statements ==
  { filledTo(Openings[o] \o ConstraintTexts[c], n) :
      o \in 1..Len(Openings), c \in 1..Len(ConstraintTexts),
      n \in StatementLengths }

Problems == {extractProblem(statement) : statement \in Statements}

NoProblem == [statement |-> <<>>, constraints |-> <<>>]

(***************************************************************************)
(* State.                                                                  *)
(***************************************************************************)
VARIABLES
  scPath,          \* the ReasoningPath handed to the scorers
  scPhase,         \* "new", "logical", "complete", "scored"
  scContra,        \* what detectContradictions returned
  scLogical,       \* what scoreLogicalConsistency returned
  scCompleteness,  \* what scoreCompleteness returned
  scSimplicity     \* what scoreSimplicity returned

scoreVars ==
  <<scPath, scPhase, scContra, scLogical, scCompleteness, scSimplicity>>

VARIABLES
  rPc,          \* where processInternal stands: "idle", "querying", "inferring",
                \* "synthesizing", "done", "failed"
  rStatus,      \* per strategy: "none", "pending", "ok", "failed"
  rGiven,       \* per strategy: the raw result the backend gave it (0: none)
  rResponses,   \* the array Promise.all builds (0: empty place)
  rBest,        \* the place in paths of the path selected (0: none yet)
  rScores,      \* the scores evaluateReasoningPaths computed, one per path
  rCalls,       \* inference calls issued so far
  rError,       \* why processInternal rejected: "none", "error", "cancel"
  rFailedAt,    \* "none", "strategy", "synthesis"
  rOutOfOrder,  \* a strategy completed while an earlier one was pending
  rResult       \* the ModelResponse returned

reasonVars ==
  <<rPc, rStatus, rGiven, rResponses, rBest, rScores, rCalls, rError,
    rFailedAt, rOutOfOrder, rResult>>

VARIABLES
  calls,          \* per caller, the execute call it is in (see IdleCall)
  cache,          \* this.cache: a set of [key, response]
  started,        \* execute calls started so far; also names the promises
  cacheHits,      \* metrics.recordCacheHit calls
  metricSamples,  \* metrics.record calls
  now,            \* the clock
  lastGood,       \* per request id: the response of the last call that
                  \* succeeded with caching enabled (0: none)
  failStreak,     \* execute calls in a row whose invocation failed
  lastFailAt      \* when the last of them failed

pipeVars ==
  <<calls, cache, started, cacheHits, metricSamples, now, lastGood,
    failStreak, lastFailAt>>

VARIABLES
  cxProblems,     \* the two problems assessed
  cxAssessed,     \* which of the two have been assessed
  cxScores        \* what assessCognitiveComplexity returned for each

complexVars == <<cxProblems, cxAssessed, cxScores>>

VARIABLES
  circuit,        \* one CircuitBreaker: state, failure counter, time of opening
  circuitNow,     \* the clock the breaker reads
  circuitCalls    \* the calls of breaker.execute, by caller

breakerVars == <<circuit, circuitNow, circuitCalls>>

VARIABLES
  cfResponse,     \* the response given to calculateConfidence
  cfRate,         \* metrics.getRecentSuccessRate(), in thousandths
  cfDone,         \* has calculateConfidence returned
  cfConfidence    \* what it returned, in thousandths

confidenceVars == <<cfResponse, cfRate, cfDone, cfConfidence>>

VARIABLES
  paResponse,     \* the raw result given to parseReasoningPath
  paDone,         \* has parseReasoningPath returned
  paPath          \* the ReasoningPath it returned

parseVars == <<paResponse, paDone, paPath>>

restVars == <<complexVars, breakerVars, confidenceVars, parseVars>>

vars == <<scoreVars, reasonVars, pipeVars, restVars>>

(***************************************************************************)
(* The scorers applied to paths built from a pool of steps.                *)
(***************************************************************************)
MaxScoreSteps == 3

StepPool ==
  { <<"T","h","e"," ","s","y","s","t","e","m"," ","i","s"," ","n","o","t"," ","s","c","a","l","a","b","l","e">>,
    <<"T","h","e"," ","s","y","s","t","e","m"," ","i","s"," ","s","c","a","l","a","b","l","e">>,
    <<"W","e"," ","a","s","s","u","m","e"," ","X",".">>,
    <<"B","e","c","a","u","s","e"," ","X",","," ","t","h","e","r","e","f","o","r","e"," ","Y",".">>,
    <<"T","h","u","s"," ","Z"," ","f","o","l","l","o","w","s",".">>,
    <<"n","o","t"," ","s","c","a","l","a","b","l","e">>,
    <<"s","o"," ","f","i","r","s","t"," ","w","e"," ","c","a","c","h","e"," ","i","t">>,
    <<"i","t"," ","n","e","v","e","r"," ","f","a","i","l","s"," ","b","e","c","a","u","s","e"," ","o","f"," ","a","l","l"," ","t","h","i","s">> }

RECURSIVE seqsUpTo(_, _)
seqsUpTo(S, n) ==
  IF n = 0 THEN {<<>>}
  ELSE LET shorter == seqsUpTo(S, n - 1)
       IN shorter \cup {Append(q, x) : q \in shorter, x \in S}

ScoreInputs ==
  { [steps |-> s, confidence |-> 80, assumptions |-> a] :
      s \in seqsUpTo(StepPool, MaxScoreSteps) \ {<<>>},
      a \in {<<>>, << <<"X">> >>} }

NoPath == [steps |-> <<>>, confidence |-> 0, assumptions |-> <<>>]
NoResult == [confidence |-> 0, nSteps |-> 0, alternativePaths |-> 0]

ScoreIdle ==
  /\ scPath = NoPath
  /\ scPhase = "off"
  /\ scContra = FALSE
  /\ scLogical = 0
  /\ scCompleteness = 0
  /\ scSimplicity = 0

ReasonIdle ==
  /\ rPc = "idle"
  /\ rStatus = [k \in StrategyIds |-> "none"]
  /\ rGiven = [k \in StrategyIds |-> 0]
  /\ rResponses = [k \in StrategyIds |-> 0]
  /\ rBest = 0
  /\ rScores = <<>>
  /\ rCalls = 0
  /\ rError = "none"
  /\ rFailedAt = "none"
  /\ rOutOfOrder = FALSE
  /\ rResult = NoResult

\* the state after the constructor of BaseModel
Clients == {"c1", "c2"}
Requests ==
  { [id |-> "q1", stream |-> FALSE, cyclic |-> FALSE],
    [id |-> "q2", stream |-> TRUE, cyclic |-> FALSE],
    [id |-> "q3", stream |-> FALSE, cyclic |-> TRUE] }
RequestIds == {q.id : q \in Requests}
NoInput == [id |-> "none", stream |-> FALSE, cyclic |-> FALSE]
NoResponse ==
  [text |-> 0, confidence |-> 0, modelId |-> Null, degraded |-> FALSE,
   error |-> "none"]
NoOutcome == [kind |-> "none", error |-> "none", response |-> NoResponse]

IdleCall ==
  [ pc |-> "idle",           \* "idle", "optimizing", "invoking", "backoff",
                             \* "enhanced", "returned"
    input |-> NoInput,
    key |-> 0,               \* the promise generateCacheKey returned
    attempt |-> 0,           \* the retry policy's attempt counter
    breaker |-> newCircuitBreaker,  \* the breaker of executeWithResilience
    response |-> NoResponse, \* enhancedResponse
    outcome |-> NoOutcome,   \* what execute returned or raised
    invocations |-> 0,       \* processInternal calls of this execute call
    optimizations |-> 0,     \* performanceOptimizer.optimize calls of it
    primed |-> 0,            \* lastGood of the request when the call began
    tripped |-> FALSE,       \* the call began with failStreak at the
                             \* threshold and the cooldown running
    cancelled |-> FALSE,     \* the caller cancelled this call
    at |-> "idle" ]          \* the pc the call was at when execute ended

ComplexIdle ==
  /\ cxProblems = <<NoProblem, NoProblem>>
  /\ cxAssessed = {1, 2}
  /\ cxScores = <<0, 0>>

\* a caller of breaker.execute that has no call in flight
IdleCircuitCall == [pc |-> "idle", trial |-> FALSE, attempts |-> 0]

BreakerIdle ==
  /\ circuit = newCircuitBreaker
  /\ circuitNow = 0
  /\ circuitCalls = [c \in Clients |-> IdleCircuitCall]

\* the texts of the responses given to calculateConfidence
ConfidenceTexts ==
  { <<"T","h","e"," ","a","n","s","w","e","r"," ","i","s"," ","4","2",".">>, <<"o","k">>, <<"e","r","r","o","r">>, <<"A","n"," ","e","r","r","o","r"," ","o","c","c","u","r","r","e","d"," ","h","e","r","e",".">>,
    <<"y","e","s"," ","i","t"," ","i","s"," ","s","o">>, <<"D","o","n","e","!">>, <<"Y","e","s",","," "," ","i","t"," "," ","i","s",".">> }

ConfidenceRates == {0, 500, 1000}

ConfidenceResponses ==
  [text : ConfidenceTexts, fast : BOOLEAN, small : BOOLEAN]

ConfidenceIdle ==
  /\ cfResponse = [text |-> <<>>, fast |-> FALSE, small |-> FALSE]
  /\ cfRate = 0
  /\ cfDone = TRUE
  /\ cfConfidence = 0

\* the confidence field of a raw result, in hundredths; 0 stands for a
\* result without one
BackendConfidences == {0 - 100, 0 - 20, 0, 10, 50, 99, 100, 101, 150}

ParseIdle ==
  /\ paResponse = [text |-> <<>>, confidence |-> 0]
  /\ paDone = TRUE
  /\ paPath = NoPath

RestIdle == ComplexIdle /\ BreakerIdle /\ ConfidenceIdle /\ ParseIdle

PipeIdle ==
  /\ calls = [c \in Clients |-> IdleCall]
  /\ cache = {}
  /\ started = 0
  /\ cacheHits = 0
  /\ metricSamples = 0
  /\ now = 0
  /\ lastGood = [q \in RequestIds |-> 0]
  /\ failStreak = 0
  /\ lastFailAt = 0

InitScore ==
  /\ scPath \in ScoreInputs
  /\ scPhase = "new"
  /\ scContra = FALSE
  /\ scLogical = 0
  /\ scCompleteness = 0
  /\ scSimplicity = 0
  /\ ReasonIdle
  /\ PipeIdle
  /\ RestIdle

ScoreLogical ==
  /\ scPhase = "new"
  /\ scContra' = detectContradictions(scPath.steps)
  /\ scLogical' = scoreLogicalConsistency(scPath)
  /\ scPhase' = "logical"
  /\ UNCHANGED <<scPath, scCompleteness, scSimplicity, reasonVars, pipeVars, restVars>>

ScoreCompleteness ==
  /\ scPhase = "logical"
  /\ scCompleteness' = scoreCompleteness(scPath)
  /\ scPhase' = "complete"
  /\ UNCHANGED <<scPath, scContra, scLogical, scSimplicity, reasonVars, pipeVars, restVars>>

ScoreSimplicity ==
  /\ scPhase = "complete"
  /\ scSimplicity' = scoreSimplicity(scPath)
  /\ scPhase' = "scored"
  /\ UNCHANGED <<scPath, scContra, scLogical, scCompleteness, reasonVars, pipeVars, restVars>>

NextScore == ScoreLogical \/ ScoreCompleteness \/ ScoreSimplicity

SpecScore == InitScore /\ [][NextScore]_vars

(***************************************************************************)
(* QwQReasoning.processInternal: fan-out of the four strategy inferences,  *)
(* fan-in by Promise.all, selection, synthesis.                            *)
(***************************************************************************)
NumRaw == 4
RawIds == 1..NumRaw
ErrorKinds == {"error", "cancel"}

InitReason == ReasonIdle /\ ScoreIdle /\ PipeIdle /\ RestIdle

\* processInternal up to its first suspension: extractProblem, then
\* await this.knowledgeGraph.query(problem)
StartReasoning ==
  /\ rPc = "idle"
  /\ rPc' = "querying"
  /\ UNCHANGED <<rStatus, rGiven, rResponses, rBest, rScores, rCalls, rError,
                 rFailedAt, rOutOfOrder, rResult, scoreVars, pipeVars, restVars>>

\* a generateReasoningPaths that runs the strategies one after the other:
\* the first inference call is started and awaited alone
GeneratePathsInTurn ==
  /\ rPc = "querying"
  /\ rStatus' = [k \in StrategyIds |-> IF k = 1 THEN "pending" ELSE "none"]
  /\ rCalls' = rCalls + 1
  /\ rPc' = "inferring"
  /\ UNCHANGED <<rGiven, rResponses, rBest, rScores, rError, rFailedAt,
                 rOutOfOrder, rResult, scoreVars, pipeVars, restVars>>

\* generateReasoningPaths: the four prompts are built and prompts.map starts
\* the four runInference calls before Promise.all is awaited
GeneratePaths ==
  /\ rPc = "querying"
  /\ rStatus' = [k \in StrategyIds |-> "pending"]
  /\ rCalls' = rCalls + NumStrategies
  /\ rPc' = "inferring"
  /\ UNCHANGED <<rGiven, rResponses, rBest, rScores, rError, rFailedAt,
                 rOutOfOrder, rResult, scoreVars, pipeVars, restVars>>

\* AI.run of strategy k resolves with raw result raw
InferenceResolves(k, raw) ==
  /\ rStatus[k] = "pending"
  /\ rStatus' = [rStatus EXCEPT ![k] = "ok"]
  /\ rGiven' = [rGiven EXCEPT ![k] = raw]
  /\ rResponses' = storeResponse(rResponses, k, raw)
  /\ rOutOfOrder' = (rOutOfOrder \/ \E j \in 1..(k - 1) : rStatus[j] = "pending")
  /\ UNCHANGED <<rPc, rBest, rScores, rCalls, rError, rFailedAt, rResult,
                 scoreVars, pipeVars, restVars>>

\* AI.run of strategy k rejects: Promise.all rejects with the first rejection,
\* and so do generateReasoningPaths and processInternal
InferenceRejects(k, kind) ==
  /\ rStatus[k] = "pending"
  /\ rStatus' = [rStatus EXCEPT ![k] = "failed"]
  /\ rOutOfOrder' = (rOutOfOrder \/ \E j \in 1..(k - 1) : rStatus[j] = "pending")
  /\ IF rPc = "inferring"
       THEN rPc' = "failed" /\ rError' = kind /\ rFailedAt' = "strategy"
       ELSE UNCHANGED <<rPc, rError, rFailedAt>>
  /\ UNCHANGED <<rGiven, rResponses, rBest, rScores, rCalls, rResult, scoreVars, pipeVars, restVars>>

\* Promise.all resolves: the responses are parsed, the paths evaluated, and
\* generateReasonedResponse issues the synthesis inference
EvaluatePaths ==
  /\ rPc = "inferring"
  /\ \A k \in StrategyIds : rStatus[k] = "ok"
  /\ LET evaluated == evaluateReasoningPaths(generatedPaths(rResponses))
     IN rBest' = evaluated.best /\ rScores' = evaluated.scores
  /\ rCalls' = rCalls + 1
  /\ rPc' = "synthesizing"
  /\ UNCHANGED <<rStatus, rGiven, rResponses, rError, rFailedAt, rOutOfOrder,
                 rResult, scoreVars, pipeVars, restVars>>

\* the synthesis inference resolves: processInternal returns its response
SynthesisResolves ==
  /\ rPc = "synthesizing"
  /\ LET path == parseReasoningPath(RawOutputs[rResponses[rBest]])
     IN rResult' = [confidence |-> path.confidence,
                    nSteps |-> Len(path.steps),
                    alternativePaths |-> Len(rResponses)]
  /\ rPc' = "done"
  /\ UNCHANGED <<rStatus, rGiven, rResponses, rBest, rScores, rCalls, rError,
                 rFailedAt, rOutOfOrder, scoreVars, pipeVars, restVars>>

SynthesisRejects(kind) ==
  /\ rPc = "synthesizing"
  /\ rPc' = "failed"
  /\ rError' = kind
  /\ rFailedAt' = "synthesis"
  /\ UNCHANGED <<rStatus, rGiven, rResponses, rBest, rScores, rCalls,
                 rOutOfOrder, rResult, scoreVars, pipeVars, restVars>>

NextReason ==
  \/ StartReasoning
  \/ GeneratePaths
  \/ \E k \in StrategyIds, raw \in RawIds : InferenceResolves(k, raw)
  \/ \E k \in StrategyIds, kind \in ErrorKinds : InferenceRejects(k, kind)
  \/ EvaluatePaths
  \/ SynthesisResolves
  \/ \E kind \in ErrorKinds : SynthesisRejects(kind)

SpecReason == InitReason /\ [][NextReason]_vars

(***************************************************************************)
(* BaseModel.execute: one action per stretch of the call between two       *)
(* suspensions.  Callers share one model instance: this.cache and          *)
(* this.metrics; the breaker and the retry policy are locals of            *)
(* executeWithResilience.                                                  *)
(***************************************************************************)
MaxCalls == 2
\* the clock runs until the cooldown of a failure at time 0 has elapsed
MaxTime == Cooldown
SuccessRates == {0, 1000}

\* execute ends: it returns or raises outcome
finish(call, outcome) ==
  [call EXCEPT !.pc = "returned", !.outcome = outcome, !.at = call.pc]

\* an awaited call of this execute call rejected with an error of a kind:
\* "cancel" is the caller's cancellation
signalled(call, kind) == [call EXCEPT !.cancelled = @ \/ kind = "cancel"]

\* execute up to its first suspension: the cache key, the cache lookup, and
\* the call of performanceOptimizer.optimize
Execute(c, q) ==
  /\ calls[c].pc = "idle"
  /\ started < MaxCalls
  /\ started' = started + 1
  /\ LET begun == [IdleCall EXCEPT
                     !.input = q,
                     !.primed = IF shouldUseCache(q) THEN lastGood[q.id] ELSE 0,
                     !.tripped = /\ failStreak >= FailureThreshold
                                 /\ now - lastFailAt < Cooldown]
         key == generateCacheKey(q, started + 1)
     IN IF q.cyclic
          \* JSON.stringify throws in generateCacheKey, before the try block
          THEN /\ calls' = [calls EXCEPT ![c] =
                    finish(begun, [kind |-> "raised", error |-> "TypeError",
                                   response |-> NoResponse])]
               /\ UNCHANGED cacheHits
          ELSE IF shouldUseCache(q) /\ cacheHas(cache, key)
            THEN /\ cacheHits' = cacheHits + 1
                 /\ calls' = [calls EXCEPT ![c] =
                      finish([begun EXCEPT !.key = key],
                             [kind |-> "response", error |-> "none",
                              response |-> cacheGet(cache, key)])]
            ELSE /\ calls' = [calls EXCEPT ![c] =
                      [begun EXCEPT !.key = key, !.pc = "optimizing",
                                    !.optimizations = @ + 1]]
                 /\ UNCHANGED cacheHits
  /\ UNCHANGED <<cache, metricSamples, now, lastGood, failStreak, lastFailAt,
                 scoreVars, reasonVars, restVars>>

\* optimize resolved: executeWithResilience makes its breaker and retry
\* policy, and the first attempt calls processInternal
OptimizeResolves(c) ==
  /\ calls[c].pc = "optimizing"
  /\ LET breaker == breakerOnCall(newCircuitBreaker, now)
     IN calls' = [calls EXCEPT ![c] =
          IF breaker.state = "Open"
            THEN finish([@ EXCEPT !.breaker = breaker], catchError("BreakerOpen"))
            ELSE [@ EXCEPT !.breaker = breaker, !.attempt = 1,
                           !.invocations = @ + 1, !.pc = "invoking"]]
  /\ UNCHANGED <<cache, started, cacheHits, metricSamples, now, lastGood,
                 failStreak, lastFailAt, scoreVars, reasonVars, restVars>>

\* optimize rejected, with the retry policy around the optimizer as well
OptimizeRejectsAndRetries(c, kind) ==
  /\ calls[c].pc = "optimizing"
  /\ calls' = [calls EXCEPT ![c] =
       IF retryAgain(@.optimizations, kind)
         THEN [signalled(@, kind) EXCEPT !.optimizations = @ + 1]
         ELSE finish(signalled(@, kind), catchError(kind))]
  /\ UNCHANGED <<cache, started, cacheHits, metricSamples, now, lastGood,
                 failStreak, lastFailAt, scoreVars, reasonVars, restVars>>

\* optimize rejected: the catch clause
OptimizeRejects(c, kind) ==
  /\ calls[c].pc = "optimizing"
  /\ calls' = [calls EXCEPT ![c] = finish(signalled(@, kind), catchError(kind))]
  /\ UNCHANGED <<cache, started, cacheHits, metricSamples, now, lastGood,
                 failStreak, lastFailAt, scoreVars, reasonVars, restVars>>

\* processInternal resolved, and the metric sample is appended at once,
\* before the response is enriched and stored
InvokeResolvesAndRecords(c, r, rate) ==
  /\ calls[c].pc = "invoking"
  /\ failStreak' = 0
  /\ metricSamples' = metricSamples + 1
  /\ LET enhanced == enhanceResponse(r, rate)
         breaker == breakerOnSuccess(calls[c].breaker)
     IN calls' = [calls EXCEPT ![c] =
          IF enhanced.ok
            THEN [@ EXCEPT !.breaker = breaker, !.response = enhanced.response,
                           !.pc = "enhanced"]
            ELSE finish([@ EXCEPT !.breaker = breaker],
                        catchError(enhanced.response.error))]
  /\ UNCHANGED <<cache, started, cacheHits, now, lastGood,
                 lastFailAt, scoreVars, reasonVars, restVars>>

\* processInternal resolved with BackendResponses[r]: enhanceResponse
InvokeResolves(c, r, rate) ==
  /\ calls[c].pc = "invoking"
  /\ failStreak' = 0
  /\ LET enhanced == enhanceResponse(r, rate)
         breaker == breakerOnSuccess(calls[c].breaker)
     IN calls' = [calls EXCEPT ![c] =
          IF enhanced.ok
            THEN [@ EXCEPT !.breaker = breaker, !.response = enhanced.response,
                           !.pc = "enhanced"]
            ELSE finish([@ EXCEPT !.breaker = breaker],
                        catchError(enhanced.response.error))]
  /\ UNCHANGED <<cache, started, cacheHits, metricSamples, now, lastGood,
                 lastFailAt, scoreVars, reasonVars, restVars>>

\* processInternal rejected, with a retry policy that keeps no count of the
\* attempts
InvokeRejectsAndRetries(c, kind) ==
  /\ calls[c].pc = "invoking"
  /\ calls' = [calls EXCEPT ![c] =
       IF kind = "cancel"
         THEN finish(signalled(@, kind), catchError(kind))
         ELSE [signalled(@, kind) EXCEPT !.pc = "backoff"]]
  /\ UNCHANGED <<cache, started, cacheHits, metricSamples, now, lastGood,
                 failStreak, lastFailAt, scoreVars, reasonVars, restVars>>

\* processInternal rejected, with the retry policy wrapping the breaker: the
\* breaker is told of every failed attempt
InvokeRejectsCountingAttempts(c, kind) ==
  /\ calls[c].pc = "invoking"
  /\ IF retryAgain(calls[c].attempt, kind)
       THEN /\ calls' = [calls EXCEPT ![c] =
                 [signalled(@, kind) EXCEPT
                    !.pc = "backoff",
                    !.breaker = breakerOnFailure(@, now)]]
            /\ UNCHANGED <<failStreak, lastFailAt>>
       ELSE IF kind = "cancel"
         THEN /\ calls' = [calls EXCEPT ![c] =
                   finish(signalled(@, kind), catchError(kind))]
              /\ UNCHANGED <<failStreak, lastFailAt>>
         ELSE /\ calls' = [calls EXCEPT ![c] =
                   finish([@ EXCEPT !.breaker = breakerOnFailure(@, now)],
                          catchError(kind))]
              /\ failStreak' = failStreak + 1
              /\ lastFailAt' = now
  /\ UNCHANGED <<cache, started, cacheHits, metricSamples, now, lastGood,
                 scoreVars, reasonVars, restVars>>

\* processInternal rejected: the retry policy waits for another attempt, or
\* the error goes through the breaker to the catch clause
InvokeRejects(c, kind) ==
  /\ calls[c].pc = "invoking"
  /\ IF retryAgain(calls[c].attempt, kind)
       THEN /\ calls' = [calls EXCEPT ![c] =
                 [signalled(@, kind) EXCEPT !.pc = "backoff"]]
            /\ UNCHANGED <<failStreak, lastFailAt>>
       ELSE IF kind = "cancel"
         THEN /\ calls' = [calls EXCEPT ![c] =
                   finish(signalled(@, kind), catchError(kind))]
              /\ UNCHANGED <<failStreak, lastFailAt>>
         ELSE /\ calls' = [calls EXCEPT ![c] =
                   finish([@ EXCEPT !.breaker = breakerOnFailure(@, now)],
                          catchError(kind))]
              /\ failStreak' = failStreak + 1
              /\ lastFailAt' = now
  /\ UNCHANGED <<cache, started, cacheHits, metricSamples, now, lastGood,
                 scoreVars, reasonVars, restVars>>

\* a retry wait after which the retry policy forgets the attempt it made
BackoffElapsesUncounted(c) ==
  /\ calls[c].pc = "backoff"
  /\ calls' = [calls EXCEPT ![c].pc = "invoking"]
  /\ UNCHANGED <<cache, started, cacheHits, metricSamples, now, lastGood,
                 failStreak, lastFailAt, scoreVars, reasonVars, restVars>>

\* the retry wait elapsed: the next attempt calls processInternal
BackoffElapses(c) ==
  /\ calls[c].pc = "backoff"
  /\ calls' = [calls EXCEPT ![c].pc = "invoking", ![c].attempt = @ + 1,
                            ![c].invocations = @ + 1]
  /\ UNCHANGED <<cache, started, cacheHits, metricSamples, now, lastGood,
                 failStreak, lastFailAt, scoreVars, reasonVars, restVars>>

\* the caller cancels during the retry wait
BackoffCancelled(c) ==
  /\ calls[c].pc = "backoff"
  /\ calls' = [calls EXCEPT ![c] =
       finish(signalled(@, "cancel"), catchError("cancel"))]
  /\ UNCHANGED <<cache, started, cacheHits, metricSamples, now, lastGood,
                 failStreak, lastFailAt, scoreVars, reasonVars, restVars>>

\* enhanceResponse resolved: updateCache, recordMetrics, return.  updateCache
\* is called for every request, and is given the key and the response only.
StoreAndReturn(c) ==
  /\ calls[c].pc = "enhanced"
  /\ LET call == calls[c]
     IN /\ cache' = updateCache(cache, call.key, call.response)
        /\ lastGood' = IF shouldUseCache(call.input)
                         THEN [lastGood EXCEPT ![call.input.id] = call.response.text]
                         ELSE lastGood
        /\ calls' = [calls EXCEPT ![c] =
             finish(@, [kind |-> "response", error |-> "none",
                        response |-> call.response])]
  /\ metricSamples' = metricSamples + 1
  /\ UNCHANGED <<started, cacheHits, now, failStreak, lastFailAt,
                 scoreVars, reasonVars, restVars>>

\* the caller takes what execute returned or raised
Collect(c) ==
  /\ calls[c].pc = "returned"
  /\ calls' = [calls EXCEPT ![c] = IdleCall]
  /\ UNCHANGED <<cache, started, cacheHits, metricSamples, now, lastGood,
                 failStreak, lastFailAt, scoreVars, reasonVars, restVars>>

\* time passes
Tick ==
  /\ now < MaxTime
  /\ now' = now + 1
  /\ UNCHANGED <<calls, cache, started, cacheHits, metricSamples, lastGood,
                 failStreak, lastFailAt, scoreVars, reasonVars, restVars>>

Init == PipeIdle /\ ScoreIdle /\ ReasonIdle /\ RestIdle

Next ==
  \/ \E c \in Clients, q \in Requests : Execute(c, q)
  \/ \E c \in Clients : OptimizeResolves(c)
  \/ \E c \in Clients, kind \in ErrorKinds : OptimizeRejects(c, kind)
  \/ \E c \in Clients, r \in ResponseIds, rate \in SuccessRates :
       InvokeResolves(c, r, rate)
  \/ \E c \in Clients, kind \in ErrorKinds : InvokeRejects(c, kind)
  \/ \E c \in Clients : BackoffElapses(c)
  \/ \E c \in Clients : BackoffCancelled(c)
  \/ \E c \in Clients : StoreAndReturn(c)
  \/ \E c \in Clients : Collect(c)
  \/ Tick

Spec == Init /\ [][Next]_vars

(***************************************************************************)
(* Properties of the execution pipeline (Spec).                            *)
(***************************************************************************)
Returned(c) == calls[c].pc = "returned"

\* C1: unless the caller cancelled, execute ends by returning a Response
\* whose confidence is in [0,1] and whose model identifier is non-null; it
\* raises nothing.
C1_AlwaysReturnsResponse ==
  \A c \in Clients :
    (Returned(c) /\ ~calls[c].cancelled) =>
      /\ calls[c].outcome.kind = "response"
      /\ calls[c].outcome.response.confidence \in 0..1000
      /\ calls[c].outcome.response.modelId # Null

\* C2: a call with caching enabled that begins after an identical request
\* succeeded invokes processInternal zero times and returns the text the
\* first call stored.
C2_SecondCallServedFromCache ==
  \A c \in Clients :
    calls[c].primed # 0 =>
      /\ calls[c].invocations = 0
      /\ Returned(c) =>
           /\ calls[c].outcome.kind = "response"
           /\ calls[c].outcome.response.text = calls[c].primed

\* C3: a call that begins after FailureThreshold execute calls in a row whose
\* invocations failed, with the cooldown still running, never calls
\* processInternal and returns a degraded Response (stated for the requests
\* generateCacheKey accepts).
C3_BreakerShortCircuits ==
  \A c \in Clients :
    (calls[c].tripped /\ ~calls[c].input.cyclic) =>
      /\ calls[c].invocations = 0
      /\ Returned(c) =>
           /\ calls[c].outcome.kind = "response"
           /\ calls[c].outcome.response.degraded

AllAttemptsFailed(c) ==
  /\ Returned(c)
  /\ calls[c].at = "invoking"
  /\ calls[c].attempt = MaxAttempts
  /\ calls[c].breaker.failures > 0

\* the breaker refused the call of c
RejectedByBreaker(c) ==
  /\ Returned(c)
  /\ calls[c].at = "optimizing"
  /\ calls[c].breaker.state = "Open"

C14_CacheHitShortCircuits ==
  \A c \in Clients :
    calls[c].primed # 0 =>
      /\ Returned(c)
      /\ calls[c].at = "idle"
      /\ calls[c].optimizations = 0
      /\ calls[c].invocations = 0
      /\ cacheHits > 0
      /\ ~cacheHas(cache, calls[c].key)
      /\ calls[c].outcome.response.text = calls[c].primed

\* C15: processInternal is invoked at most MaxAttempts times in one call;
\* an invocation is started by the arrival at the breaker or after a failed
\* attempt's wait, never after an attempt succeeded.
C15_BoundedAttempts ==
  [][\A c \in Clients :
       calls'[c].invocations > calls[c].invocations =>
         /\ calls'[c].invocations = calls[c].invocations + 1
         /\ calls'[c].invocations <= MaxAttempts
         /\ \/ calls[c].pc = "optimizing" /\ calls[c].invocations = 0
            \/ calls[c].pc = "backoff"]_vars

\* a call is in its last permitted attempt
C15_LastAttempt ==
  \E c \in Clients :
    calls[c].pc = "invoking" /\ calls[c].invocations = MaxAttempts

\* the invocation of the call of c succeeded
InvocationSucceeded(c) ==
  \/ calls[c].pc = "enhanced"
  \/ Returned(c) /\ calls[c].at = "enhanced"
  \/ Returned(c) /\ calls[c].at = "invoking"
       /\ calls[c].outcome.response.error = "TypeError"

\* C16: the breaker of a call is told one outcome: nothing while attempts
\* are still made, one failure when all attempts failed, and a success and
\* no failure when an attempt succeeded, whatever failed before it.
C16_OneOutcomePerCall ==
  \A c \in Clients :
    /\ calls[c].pc \in {"invoking", "backoff"} =>
         calls[c].breaker = newCircuitBreaker
    /\ AllAttemptsFailed(c) => calls[c].breaker.failures = 1
    /\ InvocationSucceeded(c) =>
         /\ calls[c].breaker.failures = 0
         /\ calls[c].breaker.state = "Closed"

\* an invocation succeeded in the third attempt
C16_SuccessAfterFailures ==
  \E c \in Clients :
    /\ calls[c].pc = "enhanced"
    /\ calls[c].attempt = MaxAttempts
    /\ calls[c].breaker.failures = 0

\* the optimizer failed the call of c
OptimizerFailed(c) ==
  /\ Returned(c)
  /\ calls[c].at = "optimizing"
  /\ calls[c].outcome.response.error \notin {"none", "BreakerOpen"}

\* C18: a call whose input optimization failed called optimize once, and
\* neither the breaker, the retry policy nor processInternal, and put
\* nothing in the cache.
C18_OptimizerFailureEndsCall ==
  \A c \in Clients :
    OptimizerFailed(c) =>
      /\ calls[c].optimizations = 1
      /\ calls[c].invocations = 0
      /\ calls[c].attempt = 0
      /\ calls[c].breaker = newCircuitBreaker
      /\ ~cacheHas(cache, calls[c].key)

\* a call ended with the degraded Response of an optimizer error
C18_OptimizerErrorReturned ==
  \E c \in Clients :
    /\ OptimizerFailed(c)
    /\ calls[c].outcome.kind = "response"
    /\ calls[c].outcome.response.error = "error"

\* the steps of execute in their order: from which pc to which a call goes
StepOrder ==
  { <<"idle", "optimizing">>, <<"optimizing", "invoking">>,
    <<"invoking", "backoff">>, <<"backoff", "invoking">>,
    <<"invoking", "enhanced">>, <<"enhanced", "returned">>,
    <<"idle", "returned">>, <<"optimizing", "returned">>,
    <<"invoking", "returned">>, <<"backoff", "returned">>,
    <<"returned", "idle">> }

\* the call of c missed the cache and succeeded
MissSucceeded(c) == Returned(c) /\ calls[c].at = "enhanced"

\* C22: a call goes through its steps in the order optimization, breaker
\* entry and invocation, enrichment, store and metric sample, return; the
\* cache is written and a metric sample appended only in the step from the
\* enriched response to the return, once for the call; and a call that
\* missed the cache and succeeded optimized once, was let through by its
\* breaker, invoked, and has its Response in the cache.
C22_StepsInOrder ==
  [][/\ \A c \in Clients :
          calls'[c].pc # calls[c].pc =>
            <<calls[c].pc, calls'[c].pc>> \in StepOrder
     /\ (cache' # cache \/ metricSamples' # metricSamples) =>
          \E c \in Clients :
            /\ calls[c].pc = "enhanced"
            /\ MissSucceeded(c)'
            /\ ~cacheHas(cache, calls[c].key)
            /\ cache' = cache \cup {[key |-> calls[c].key,
                                     response |-> calls[c].response]}
            /\ metricSamples' = metricSamples + 1
            /\ calls[c].response.confidence >= 0
            /\ calls[c].response.modelId = ModelId
     /\ \A c \in Clients :
          MissSucceeded(c)' =>
            /\ calls'[c].optimizations = 1
            /\ calls'[c].invocations >= 1
            /\ calls'[c].breaker.state = "Closed"
            /\ cacheHas(cache', calls'[c].key)
            /\ calls'[c].outcome.response = calls'[c].response]_vars

\* a call that missed the cache succeeded in its first attempt and returned
C22_MissSucceededAtOnce ==
  \E c \in Clients :
    /\ MissSucceeded(c)
    /\ calls[c].invocations = 1
    /\ metricSamples = 1
    /\ cacheHas(cache, calls[c].key)

\* C26: the cache holds at most one entry for a fingerprint, whatever the
\* interleaving of the calls that stored under it.
C26_OneEntryPerFingerprint ==
  \A e1, e2 \in cache : e1.key.digest = e2.key.digest => e1 = e2

\* C27: when two calls in flight together have both failed, with no failure
\* on record when either began, the breaker that took the later report has
\* counted both failures.
C27_ConcurrentFailuresCounted ==
  \A c, d \in Clients :
    ( /\ c # d
      /\ AllAttemptsFailed(c) /\ AllAttemptsFailed(d)
      /\ ~calls[c].tripped /\ ~calls[d].tripped
      /\ now = 0 )
    => \E x \in {c, d} : calls[x].breaker.failures = 2

\* C19: a call for a request the cache policy excludes leaves no entry of
\* its own in the cache.
C19_UncachedRequestLeavesCache ==
  \A c \in Clients :
    ~shouldUseCache(calls[c].input) => ~cacheHas(cache, calls[c].key)

(***************************************************************************)
(* QwQReasoning.assessCognitiveComplexity applied to two problems.         *)
(***************************************************************************)
InitComplex ==
  /\ cxProblems \in Problems \X Problems
  /\ cxAssessed = {}
  /\ cxScores = <<0, 0>>
  /\ PipeIdle /\ ScoreIdle /\ ReasonIdle /\ BreakerIdle /\ ConfidenceIdle
  /\ ParseIdle

AssessCognitive(k) ==
  /\ k \notin cxAssessed
  /\ cxAssessed' = cxAssessed \cup {k}
  /\ cxScores' = [cxScores EXCEPT
                    ![k] = assessCognitiveComplexity(cxProblems[k])]
  /\ UNCHANGED <<cxProblems, scoreVars, reasonVars, pipeVars, breakerVars,
                 confidenceVars, parseVars>>

NextComplex == \E k \in {1, 2} : AssessCognitive(k)

SpecComplex == InitComplex /\ [][NextComplex]_vars

(***************************************************************************)
(* Properties of the complexity assessment (SpecComplex).                  *)
(***************************************************************************)
\* the first problem is longer than 200 characters with four constraints,
\* the second shorter than 200 characters with none
LongConstrainedAndShortFree ==
  /\ cxAssessed = {1, 2}
  /\ Len(cxProblems[1].statement) > 200
  /\ Len(cxProblems[1].constraints) = 4
  /\ Len(cxProblems[2].statement) < 200
  /\ Len(cxProblems[2].constraints) = 0

\* C11: the cognitive complexity of a problem longer than 200 characters
\* with four constraints is strictly greater than that of a problem shorter
\* than 200 characters with no constraint, whatever keywords and commas
\* either statement has.
C11_LongConstrainedScoresHigher ==
  LongConstrainedAndShortFree => cxScores[1] > cxScores[2]

\* the closest case: the first statement has neither keyword nor clauses,
\* the second has both
C11_ClosestCase ==
  /\ LongConstrainedAndShortFree
  /\ ~includes(cxProblems[1].statement, <<"m","u","l","t","i">>)
  /\ ~includes(cxProblems[1].statement, <<"c","o","m","p","l","e","x">>)
  /\ clauseCount(cxProblems[1].statement) <= 5
  /\ includes(cxProblems[2].statement, <<"c","o","m","p","l","e","x">>)
  /\ clauseCount(cxProblems[2].statement) > 5
  /\ cxScores[1] - cxScores[2] = 5

(***************************************************************************)
(* calculateConfidence applied to responses of every make (SpecConfidence).*)
(***************************************************************************)
InitConfidence ==
  /\ cfResponse \in ConfidenceResponses
  /\ cfRate \in ConfidenceRates
  /\ cfDone = FALSE
  /\ cfConfidence = 0
  /\ ComplexIdle /\ BreakerIdle /\ ParseIdle /\ ScoreIdle /\ ReasonIdle
  /\ PipeIdle

CalculateConfidence ==
  /\ ~cfDone
  /\ cfDone' = TRUE
  /\ cfConfidence' = calculateConfidence(cfResponse, cfRate)
  /\ UNCHANGED <<cfResponse, cfRate, complexVars, breakerVars, parseVars,
                 scoreVars, reasonVars, pipeVars>>

NextConfidence == CalculateConfidence

SpecConfidence == InitConfidence /\ [][NextConfidence]_vars

\* the number of words of a text: of its runs of characters that are no
\* white space
wordCount(text) ==
  Cardinality({i \in 1..Len(text) :
                 /\ text[i] \notin WhiteSpace
                 /\ (i = 1 \/ text[i - 1] \in WhiteSpace)})

\* the number of pieces text.split(' ') gives: one more than the spaces
pieceCount(text) == Cardinality({i \in 1..Len(text) : text[i] = " "}) + 1

\* how many of the four quality checks a text passes, the third being given
qualityPassed(text, third) ==
  (IF Len(text) > 10 THEN 1 ELSE 0)
    + (IF \E i \in 1..Len(text) : startsAt(text, <<"e","r","r","o","r">>, i) THEN 0 ELSE 1)
    + (IF third THEN 1 ELSE 0)
    + (IF \E i \in 1..Len(text) :
            /\ text[i] \in {".", "!", "?"}
            /\ \A j \in (i + 1)..Len(text) : text[j] \in WhiteSpace
         THEN 1 ELSE 0)

\* min(1, L + T + 0.3 S + 0.3 Q) in thousandths, Q being passed / 4
blend(response, rate, passed) ==
  Min(1000, (IF response.fast THEN 200 ELSE 0)
              + (IF response.small THEN 200 ELSE 100)
              + (3 * rate) \div 10 + 75 * passed)

\* C21 as stated: the confidence is min(1, L + T + 0.3 S + 0.3 Q), L 0.2 for
\* a response under the latency target, T 0.2 under 80% of the token budget
\* and 0.1 otherwise, S the success rate, Q the fraction passed of the four
\* checks length over 10, no "error", more than three words, terminal
\* sentence punctuation; it lies in [0, 1].
C21_ConfidenceBlendByWords ==
  cfDone =>
    /\ cfConfidence =
         blend(cfResponse, cfRate,
               qualityPassed(cfResponse.text, wordCount(cfResponse.text) > 3))
    /\ cfConfidence >= 0
    /\ cfConfidence <= 1000

\* C21 amended: the same, the third check being that the text split at
\* every single space gives more than three pieces.
C21_ConfidenceBlend ==
  cfDone =>
    /\ cfConfidence =
         blend(cfResponse, cfRate,
               qualityPassed(cfResponse.text, pieceCount(cfResponse.text) > 3))
    /\ cfConfidence >= 0
    /\ cfConfidence <= 1000

\* a text of three words and four spaces passes all four checks
C21_ThreeWordsPass ==
  /\ cfDone
  /\ wordCount(cfResponse.text) = 3
  /\ pieceCount(cfResponse.text) = 5
  /\ cfResponse.fast /\ cfResponse.small /\ cfRate = 1000
  /\ cfConfidence = 1000

(***************************************************************************)
(* parseReasoningPath applied to raw results with every kind of confidence *)
(* field (SpecParse).                                                      *)
(***************************************************************************)
InitParse ==
  /\ paResponse \in
       {[text |-> RawOutputs[i].text, confidence |-> c] :
          i \in 1..Len(RawOutputs), c \in BackendConfidences}
  /\ paDone = FALSE
  /\ paPath = NoPath
  /\ ComplexIdle /\ BreakerIdle /\ ConfidenceIdle /\ ScoreIdle /\ ReasonIdle
  /\ PipeIdle

ParsePath ==
  /\ ~paDone
  /\ paDone' = TRUE
  /\ paPath' = parseReasoningPath(paResponse)
  /\ UNCHANGED <<paResponse, complexVars, breakerVars, confidenceVars,
                 scoreVars, reasonVars, pipeVars>>

NextParse == ParsePath

SpecParse == InitParse /\ [][NextParse]_vars

\* C23: the confidence of the path parseReasoningPath returns is in [0, 1],
\* whatever confidence the raw result carries.  In hundredths.
C23_PathConfidenceInRange ==
  paDone => (paPath.confidence >= 0 /\ paPath.confidence <= 100)

(***************************************************************************)
(* The pipeline of a model instance whose last execute call failed         *)
(* (SpecTripped): FailureThreshold calls in a row have failed, the last at *)
(* time 0, and no call is in flight.  The calls are counted from here.     *)
(***************************************************************************)
InitTripped ==
  /\ calls = [c \in Clients |-> IdleCall]
  /\ cache = {}
  /\ started = 0
  /\ cacheHits = 0
  /\ metricSamples = 0
  /\ now = 0
  /\ lastGood = [q \in RequestIds |-> 0]
  /\ failStreak = FailureThreshold
  /\ lastFailAt = 0
  /\ ScoreIdle /\ ReasonIdle /\ RestIdle

SpecTripped == InitTripped /\ [][Next]_vars

\* the calls that began with the cooldown over and whose operation is
\* running: they were let through to processInternal and have no outcome yet
InFlight ==
  {c \in Clients : calls[c].pc \in {"invoking", "backoff"} /\ ~calls[c].tripped}

\* C28: of the calls that arrive once the cooldown is over after the
\* failures that opened the breaker, at most one, the trial, is let through
\* to processInternal as long as no call has succeeded.
C28_OneTrialInFlight ==
  (failStreak >= FailureThreshold /\ now - lastFailAt >= Cooldown) =>
    Cardinality(InFlight) <= 1

(***************************************************************************)
(* The pipeline where every call of the optimizer and of the inference     *)
(* backend and every retry wait completes (SpecLive).  One caller: no step *)
(* of a call waits for a step of another call.                             *)
(***************************************************************************)
LiveClients == {"c1"}

\* the steps of the call of c that wait for the optimizer, the backend, the
\* retry wait, or nothing at all
OptimizeCompletes(c) ==
  OptimizeResolves(c) \/ \E kind \in ErrorKinds : OptimizeRejects(c, kind)

InvokeCompletes(c) ==
  \/ \E r \in ResponseIds, rate \in SuccessRates : InvokeResolves(c, r, rate)
  \/ \E kind \in ErrorKinds : InvokeRejects(c, kind)

BackoffCompletes(c) == BackoffElapses(c) \/ BackoffCancelled(c)

NextLive ==
  \/ \E c \in LiveClients, q \in Requests : Execute(c, q)
  \/ \E c \in LiveClients : OptimizeCompletes(c)
  \/ \E c \in LiveClients : InvokeCompletes(c)
  \/ \E c \in LiveClients : BackoffCompletes(c)
  \/ \E c \in LiveClients : StoreAndReturn(c)
  \/ \E c \in LiveClients : Collect(c)
  \/ Tick

SpecLive ==
  /\ Init
  /\ [][NextLive]_vars
  /\ \A c \in LiveClients :
       /\ WF_vars(OptimizeCompletes(c))
       /\ WF_vars(InvokeCompletes(c))
       /\ WF_vars(BackoffCompletes(c))
       /\ WF_vars(StoreAndReturn(c))

\* C29: an execute call that has begun returns in the end.
C29_ExecuteReturns ==
  \A c \in Clients :
    (calls[c].pc \in {"optimizing", "invoking", "backoff", "enhanced"})
      ~> Returned(c)

\* a call returned after every one of its attempts had failed
C29_ReturnedAfterAllFailures ==
  \E c \in Clients :
    /\ AllAttemptsFailed(c)
    /\ calls[c].invocations = MaxAttempts
    /\ calls[c].outcome.kind = "response"
    /\ ~calls[c].cancelled

(***************************************************************************)
(* The pipeline with a metrics recorder that can fail (SpecMetrics):       *)
(* recordMetrics calls costTracker.calculate and metrics.record, and runs  *)
(* inside the try block, after updateCache.                                *)
(***************************************************************************)
\* updateCache stores the response, then recordMetrics throws: the catch
\* clause returns what handleError makes of the error
StoreAndFailToRecord(c) ==
  /\ calls[c].pc = "enhanced"
  /\ LET call == calls[c]
     IN /\ cache' = updateCache(cache, call.key, call.response)
        /\ lastGood' = IF shouldUseCache(call.input)
                         THEN [lastGood EXCEPT ![call.input.id] = call.response.text]
                         ELSE lastGood
        /\ calls' = [calls EXCEPT ![c] = finish(@, catchError("error"))]
  /\ UNCHANGED <<started, cacheHits, metricSamples, now, failStreak,
                 lastFailAt, scoreVars, reasonVars, restVars>>

NextMetrics ==
  \/ Next
  \/ \E c \in Clients : StoreAndFailToRecord(c)

SpecMetrics == Init /\ [][NextMetrics]_vars

\* C30: a call that ended in the error path, after the cache-miss check,
\* has no entry of its own in the cache, and the entry stored by a call that
\* has returned holds the Response the call returned.
C30_ErrorPathLeavesCache ==
  \A c \in Clients :
    (Returned(c) /\ calls[c].at # "idle") =>
      /\ (calls[c].outcome.kind = "raised" \/ calls[c].outcome.response.degraded)
           => ~cacheHas(cache, calls[c].key)
      /\ cacheHas(cache, calls[c].key)
           => cacheGet(cache, calls[c].key) = calls[c].outcome.response

(***************************************************************************)
(* The pipeline with callers that write to the Response they were given    *)
(* (SpecCaller).  execute returns the object it gave to updateCache, and   *)
(* on a cache hit the object the cache holds: one object, two holders.     *)
(***************************************************************************)
\* what a caller writes into the text of its Response: a text that no
\* backend result has
CallerText == Len(BackendResponses) + 1

\* the Response object after the caller's write
writeText(response) == [response EXCEPT !.text = CallerText]

\* the caller of a completed call writes to the Response it holds; the cache
\* entry of the call holds the same object
CallerMutates(c) ==
  /\ calls[c].pc = "returned"
  /\ calls[c].outcome.kind = "response"
  /\ calls[c].at \in {"idle", "enhanced"}
  /\ calls[c].outcome.response.text # CallerText
  /\ calls' = [calls EXCEPT ![c].outcome.response = writeText(@)]
  /\ cache' = {IF e.key = calls[c].key
                 THEN [e EXCEPT !.response = writeText(@)]
                 ELSE e : e \in cache}
  /\ UNCHANGED <<started, cacheHits, metricSamples, now, lastGood,
                 failStreak, lastFailAt, scoreVars, reasonVars, restVars>>

NextCaller ==
  \/ Next
  \/ \E c \in Clients : CallerMutates(c)

SpecCaller == Init /\ [][NextCaller]_vars

\* C20: the cache entry a call wrote holds the Response the call computed,
\* whatever the caller does with the Response it was given.
C20_CachedResponseKept ==
  \A c \in Clients :
    (Returned(c) /\ calls[c].at = "enhanced") =>
      /\ cacheHas(cache, calls[c].key)
      /\ cacheGet(cache, calls[c].key) = calls[c].response

(***************************************************************************)
(* One CircuitBreaker serving the calls of several callers (SpecBreaker).  *)
(* The operation a call runs is the retry policy around processInternal,   *)
(* as in executeWithResilience.                                            *)
(***************************************************************************)
CircuitMaxTime == Cooldown + 2

\* a breaker that takes every outcome as it comes, whatever state it is in
breakerReportAlways(b, trial, ok, at) ==
  IF ok THEN breakerOnSuccess(b) ELSE breakerOnFailure(b, at)

\* the outcome of a call reaches the breaker: it counts while the breaker is
\* Closed, and in HalfOpen when it is the outcome of the trial call
breakerReport(b, trial, ok, at) ==
  IF b.state = "Closed" \/ (b.state = "HalfOpen" /\ trial)
    THEN IF ok THEN breakerOnSuccess(b) ELSE breakerOnFailure(b, at)
    ELSE b

\* does the breaker let a call through: Closed, or Open with the cooldown over
breakerAdmits(b, at) ==
  b.state = "Closed" \/ (b.state = "Open" /\ breakerOnCall(b, at).state = "HalfOpen")

InitBreaker ==
  /\ BreakerIdle /\ ComplexIdle /\ ConfidenceIdle /\ ParseIdle /\ ScoreIdle
  /\ ReasonIdle /\ PipeIdle

\* breaker.execute lets the call through and starts the operation
CircuitAdmits(c) ==
  /\ circuitCalls[c].pc = "idle"
  /\ breakerAdmits(circuit, circuitNow)
  /\ circuit' = breakerOnCall(circuit, circuitNow)
  /\ circuitCalls' = [circuitCalls EXCEPT ![c] =
       [pc |-> "running", trial |-> circuit.state = "Open", attempts |-> 1]]
  /\ UNCHANGED <<circuitNow, complexVars, confidenceVars, parseVars, scoreVars,
                 reasonVars, pipeVars>>

\* a breaker that counts the calls it refuses as failures
CircuitRejectsAndCounts(c) ==
  /\ circuitCalls[c].pc = "idle"
  /\ ~breakerAdmits(circuit, circuitNow)
  /\ circuit' = [circuit EXCEPT !.failures = @ + 1, !.openedAt = circuitNow]
  /\ circuitCalls' = [circuitCalls EXCEPT ![c].pc = "rejected"]
  /\ UNCHANGED <<circuitNow, complexVars, confidenceVars, parseVars, scoreVars,
                 reasonVars, pipeVars>>

\* breaker.execute fails fast: the operation is not started
CircuitRejects(c) ==
  /\ circuitCalls[c].pc = "idle"
  /\ ~breakerAdmits(circuit, circuitNow)
  /\ circuitCalls' = [circuitCalls EXCEPT ![c].pc = "rejected"]
  /\ UNCHANGED <<circuit, circuitNow, complexVars, confidenceVars, parseVars, scoreVars,
                 reasonVars, pipeVars>>

\* an attempt of the operation succeeded: the breaker is told of a success
CircuitAttemptSucceeds(c) ==
  /\ circuitCalls[c].pc = "running"
  /\ circuit' = breakerReport(circuit, circuitCalls[c].trial, TRUE, circuitNow)
  /\ circuitCalls' = [circuitCalls EXCEPT ![c].pc = "done"]
  /\ UNCHANGED <<circuitNow, complexVars, confidenceVars, parseVars, scoreVars,
                 reasonVars, pipeVars>>

\* an attempt of the operation failed: the retry policy makes another, or the
\* breaker is told of a failure
CircuitAttemptFails(c) ==
  /\ circuitCalls[c].pc = "running"
  /\ IF retryAgain(circuitCalls[c].attempts, "error")
       THEN /\ circuitCalls' = [circuitCalls EXCEPT ![c].attempts = @ + 1]
            /\ UNCHANGED circuit
       ELSE /\ circuit' = breakerReport(circuit, circuitCalls[c].trial, FALSE,
                                        circuitNow)
            /\ circuitCalls' = [circuitCalls EXCEPT ![c].pc = "failed"]
  /\ UNCHANGED <<circuitNow, complexVars, confidenceVars, parseVars, scoreVars,
                 reasonVars, pipeVars>>

\* the caller has the result and may call again
CircuitReturns(c) ==
  /\ circuitCalls[c].pc \in {"done", "failed", "rejected"}
  /\ circuitCalls' = [circuitCalls EXCEPT ![c] = IdleCircuitCall]
  /\ UNCHANGED <<circuit, circuitNow, complexVars, confidenceVars, parseVars, scoreVars,
                 reasonVars, pipeVars>>

CircuitTick ==
  /\ circuitNow < CircuitMaxTime
  /\ circuitNow' = circuitNow + 1
  /\ UNCHANGED <<circuit, circuitCalls, complexVars, confidenceVars, parseVars, scoreVars,
                 reasonVars, pipeVars>>

NextBreaker ==
  \/ \E c \in Clients : CircuitAdmits(c)
  \/ \E c \in Clients : CircuitRejects(c)
  \/ \E c \in Clients : CircuitAttemptSucceeds(c)
  \/ \E c \in Clients : CircuitAttemptFails(c)
  \/ \E c \in Clients : CircuitReturns(c)
  \/ CircuitTick

SpecBreaker == InitBreaker /\ [][NextBreaker]_vars

C17_RejectionNotCounted ==
  [][\A c \in Clients :
       /\ (circuitCalls[c].pc = "idle" /\ circuitCalls'[c].pc = "rejected") =>
            /\ circuit' = circuit
            /\ circuitCalls'[c].attempts = 0
       /\ circuitCalls[c].pc = "rejected" =>
            /\ circuitCalls'[c].pc \in {"rejected", "idle"}
            /\ circuitCalls'[c].attempts = 0]_vars

\* a call was refused by the Open breaker before the cooldown was over
C17_RejectedWhileOpen ==
  \E c \in Clients :
    /\ circuitCalls[c].pc = "rejected"
    /\ circuit.state = "Open"
    /\ circuitNow - circuit.openedAt < Cooldown

(***************************************************************************)
(* Properties of the reasoning engine (SpecReason).                        *)
(***************************************************************************)
\* the fixtures parsed and scored once
FixturePaths ==
  asSeq([i \in 1..Len(RawOutputs) |-> parseReasoningPath(RawOutputs[i])])
FixtureScores == scorePaths(FixturePaths)

Evaluated == rPc \in {"synthesizing", "done"}
AllCompleted == \A k \in StrategyIds : rStatus[k] \in {"ok", "failed"}

\* C5: a strategy whose inference call fails is dropped from the candidates:
\* once all four calls have completed, one of them with a result and none
\* cancelled, processInternal has not failed because of a strategy.
C5_FailedStrategyDropped ==
  (AllCompleted /\ rError # "cancel" /\ \E k \in StrategyIds : rStatus[k] = "ok")
    => ~(rPc = "failed" /\ rFailedAt = "strategy")

\* C6: the path selected, and the path put in the response, has at least one
\* step; four raw outputs that parse to no step select no path.
C6_NoEmptyPathSelected ==
  /\ Evaluated => Len(FixturePaths[rResponses[rBest]].steps) > 0
  /\ rPc = "done" => rResult.nSteps > 0

\* C7 as amended: the path selected has the highest weighted score, and among
\* the paths of that score it is the one of the earliest strategy.
C7_HighestScoreEarliestWins ==
  Evaluated =>
    \A k \in StrategyIds :
      \/ rScores[k].score < rScores[rBest].score
      \/ rScores[k].score = rScores[rBest].score /\ rBest <= k

\* C7 as stated: among paths of equal weighted score the one of higher raw
\* confidence is selected, and among those the earliest.
C7_TieBrokenByConfidence ==
  Evaluated =>
    \A k \in StrategyIds :
      LET confK == FixturePaths[rResponses[k]].confidence
          confBest == FixturePaths[rResponses[rBest]].confidence
      IN \/ rScores[k].score < rScores[rBest].score
         \/ /\ rScores[k].score = rScores[rBest].score
            /\ confK < confBest \/ (confK = confBest /\ rBest <= k)

\* a selection among paths that tie on the weighted score and differ in
\* raw confidence
C7_TieWitness ==
  /\ Evaluated
  /\ \E k \in StrategyIds :
       /\ k # rBest
       /\ rScores[k].score = rScores[rBest].score
       /\ FixturePaths[rResponses[k]].confidence
            # FixturePaths[rResponses[rBest]].confidence

\* the selection a run makes from the raw outputs given to the strategies
ExpectedBest(given) ==
  CHOOSE b \in StrategyIds :
    \A k \in StrategyIds :
      \/ FixtureScores[given[k]].score < FixtureScores[given[b]].score
      \/ /\ FixtureScores[given[k]].score = FixtureScores[given[b]].score
         /\ b <= k

\* C8: the path selected and the component scores depend on the raw output
\* of each strategy only, not on the order the inference calls completed in.
C8_SelectionDeterministic ==
  Evaluated =>
    /\ rBest = ExpectedBest(rGiven)
    /\ \A k \in StrategyIds :
         /\ rScores[k].logical = FixtureScores[rGiven[k]].logical
         /\ rScores[k].completeness = FixtureScores[rGiven[k]].completeness
         /\ rScores[k].simplicity = FixtureScores[rGiven[k]].simplicity

\* a selection after the inference calls completed out of prompt order
C8_OutOfOrderWitness ==
  /\ Evaluated
  /\ rOutOfOrder
  /\ \E j, k \in StrategyIds : rGiven[j] # rGiven[k]

\* C25: the four strategy inference calls are started together, before any
\* of them has completed; the paths are scored and the synthesis call issued
\* only when all four have completed and the winner is selected; a
\* processInternal that succeeded made five inference calls.
C25_FanOutFanIn ==
  [][/\ rCalls' # rCalls =>
          \/ /\ rPc = "querying" /\ rPc' = "inferring"
             /\ rCalls = 0 /\ rCalls' = NumStrategies
             /\ \A k \in StrategyIds :
                  rStatus[k] = "none" /\ rStatus'[k] = "pending"
          \/ /\ rPc = "inferring" /\ rPc' = "synthesizing"
             /\ rCalls' = NumStrategies + 1
             /\ \A k \in StrategyIds : rStatus[k] = "ok"
             /\ rBest' \in StrategyIds
             /\ Len(rScores') = NumStrategies
     /\ \A k \in StrategyIds :
          (rStatus[k] = "none" /\ rStatus'[k] # "none") =>
            \A j \in StrategyIds : rStatus'[j] = "pending"
     /\ (rBest' # rBest \/ rScores' # rScores) =>
          \A k \in StrategyIds : rStatus[k] = "ok"
     /\ rPc' = "done" =>
          (rPc \in {"synthesizing", "done"} /\ rCalls' = NumStrategies + 1)]_vars

\* processInternal returned after five inference calls, the strategies
\* having completed out of order
C25_FiveCallsMade ==
  /\ rPc = "done"
  /\ rCalls = NumStrategies + 1
  /\ rOutOfOrder
  /\ rResult.alternativePaths = NumStrategies

(***************************************************************************)
(* Properties of the scorers (SpecScore).                                  *)
(***************************************************************************)
\* C24: the logical consistency of a path is max(0, 1 - 0.3 c - 0.1 f -
\* 0.2 n), c 1 for a contradiction, n 1 for no causal connective in any step,
\* f the number of the fallacy patterns found in the path, each counted once;
\* it lies in [0, 1].  In hundredths.
C24_FallaciesCountedOnce ==
  scPhase \in {"logical", "complete", "scored"} =>
    LET found == detectFallacies(scPath.steps)
        f == Cardinality({found[i] : i \in 1..Len(found)})
        c == IF scContra THEN 1 ELSE 0
        n == IF validateCausalChain(scPath.steps) THEN 0 ELSE 1
    IN /\ scLogical = Max(0, 100 - 30 * c - 10 * f - 20 * n)
       /\ scLogical >= 0
       /\ scLogical <= 100

StepNotScalable == <<"T","h","e"," ","s","y","s","t","e","m"," ","i","s"," ","n","o","t"," ","s","c","a","l","a","b","l","e">>
StepScalable == <<"T","h","e"," ","s","y","s","t","e","m"," ","i","s"," ","s","c","a","l","a","b","l","e">>

\* C9: the path of the two steps "The system is not scalable" and "The system
\* is scalable" is flagged contradictory, and its logical consistency is 0.3
\* below that of the path without the negated step.
C9_ContradictionFlagged ==
  (scPhase = "scored" /\ scPath.steps = <<StepNotScalable, StepScalable>>)
    => /\ scContra
       /\ scLogical
            = scoreLogicalConsistency([scPath EXCEPT !.steps = <<StepScalable>>]) - 30

\* C10: the path of the steps "We assume X.", "Because X, therefore Y.",
\* "Thus Z follows." with confidence 0.8 has completeness at least 0.5 and
\* simplicity 1.0.
C10_ExampleScores ==
  ( /\ scPhase = "scored"
    /\ scPath.steps
         = << <<"W","e"," ","a","s","s","u","m","e"," ","X",".">>, <<"B","e","c","a","u","s","e"," ","X",","," ","t","h","e","r","e","f","o","r","e"," ","Y",".">>, <<"T","h","u","s"," ","Z"," ","f","o","l","l","o","w","s",".">> >>
    /\ scPath.confidence = 80 )
    => scCompleteness >= 50 /\ scSimplicity = 100

====
